---- MODULE Spec2Model ----
(***************************************************************************)
(* Model of the Ollama FastAPI gateway of src/main.py.                     *)
(*                                                                         *)
(* Every endpoint is one handler.  A handler that awaits the upstream      *)
(* daemon is split at its await: <handler>_call issues the outbound        *)
(* request and suspends, <handler>_return resumes with the outcome of the  *)
(* call and answers the client.  generate_text and read_root contain no    *)
(* await and answer in one step.                                           *)
(*                                                                         *)
(* Strings are sequences of tokens; an f-string is the concatenation of    *)
(* its literal parts and its formatted values.  The literals of main.py    *)
(* are Chinese; each is rendered by an ASCII token that glosses it.        *)
(***************************************************************************)
EXTENDS Integers, Sequences, FiniteSets, TLC

VARIABLES slot, sent, pydantic

vars == <<slot, sent, pydantic>>

\* Number of request slots, i.e. of inbound requests that can be in flight at once.
NumReq == 1
\* Number of requests in flight at once in SpecInFlight.
NumInFlight == 2
\* Largest reading of time.time() (in ticks of 5 microseconds).
MaxClock == 2

Req == 1..NumReq

\* Longest models array the daemon sends.
MaxModels == 2

\* Model names a client can put in a request.
Names == {"llama3", "qwen"}

OLLAMA_BASE_URL == <<"http://localhost:11434">>

\* The literal that opens the detail of every 503.
cannot_connect == <<"cannot connect to the Ollama service: ">>

-----------------------------------------------------------------------------
(* Strings *)

\* str(n) for a natural number: its decimal digits, most significant first.
DigitChar(d) ==
  CASE d = 0 -> "0" [] d = 1 -> "1" [] d = 2 -> "2" [] d = 3 -> "3" [] d = 4 -> "4"
    [] d = 5 -> "5" [] d = 6 -> "6" [] d = 7 -> "7" [] d = 8 -> "8" [] d = 9 -> "9"

RECURSIVE Digits(_)
Digits(n) == IF n < 10 THEN <<DigitChar(n)>> ELSE Digits(n \div 10) \o <<DigitChar(n % 10)>>

\* sub in s, for strings as token sequences.
Contains(s, sub) ==
  \E i \in 0..(Len(s) - Len(sub)) : \A j \in 1..Len(sub) : s[i + j] = sub[j]

-----------------------------------------------------------------------------
(* The upstream daemon, as seen through httpx *)

EmptyJson == [k \in {} |-> ""]

\* The outcome of one awaited httpx call: a response, or a raised exception.
UpResponse(status, text, jsonok, json) ==
  [kind |-> "response", status |-> status, text |-> text, jsonok |-> jsonok,
   json |-> json, exc |-> "none", msg |-> <<>>]

UpRaise(exc, msg) ==
  [kind |-> "raise", status |-> 0, text |-> <<>>, jsonok |-> FALSE,
   json |-> EmptyJson, exc |-> exc, msg |-> msg]

\* Error bodies the daemon sends with a 4xx/5xx status.
ErrorTexts == {<<"bad", "request">>, <<"model", "not", "found">>}

UpErrorResponses ==
  {UpResponse(s, t, FALSE, EmptyJson) : s \in {400, 404, 500, 503}, t \in ErrorTexts}

\* What the await can raise instead of returning a response.
UpRaises ==
  { UpRaise("ConnectError", <<"Connection", "refused">>),
    UpRaise("ReadTimeout", <<"timed", "out">>),
    UpRaise("ValueError", <<"unexpected", "value">>) }

\* The class hierarchy the except clauses match against.
Parent(cls) ==
  CASE cls = "ConnectError"     -> "TransportError"
    [] cls = "ReadTimeout"      -> "TimeoutException"
    [] cls = "TimeoutException" -> "TransportError"
    [] cls = "TransportError"   -> "RequestError"
    [] cls = "RequestError"     -> "HTTPError"
    [] cls = "HTTPStatusError"  -> "HTTPError"
    [] cls = "HTTPError"        -> "Exception"
    [] cls = "JSONDecodeError"  -> "ValueError"
    [] cls = "ValidationError"  -> "ValueError"
    [] cls = "ValueError"       -> "Exception"
    [] cls = "TypeError"        -> "Exception"
    [] cls = "ResponseValidationError" -> "Exception"
    [] OTHER                    -> "BaseException"

RECURSIVE IsInstance(_, _)
IsInstance(cls, base) ==
  IF cls = base THEN TRUE
  ELSE IF cls = "BaseException" THEN FALSE
  ELSE IsInstance(Parent(cls), base)

-----------------------------------------------------------------------------
(* Responses of the gateway *)

JsonResp(status, body) == [status |-> status, kind |-> "json", body |-> body]

\* raise HTTPException(status_code, detail): FastAPI answers {"detail": detail}.
HTTPException(status_code, detail) == JsonResp(status_code, [detail |-> detail])

\* An exception that leaves the handler: the server answers a plain-text 500.
Unhandled(exc) ==
  [status |-> 500, kind |-> "text", body |-> [text |-> <<"Internal Server Error">>, exc |-> exc]]

NoUp == UpRaise("none", <<>>)
NoResp == [status |-> 0, kind |-> "none", body |-> EmptyJson]

\* calls counts the outbound calls the request in the slot has made.
Idle == [pc |-> "idle", ep |-> "none", name |-> "none", start_time |-> 0, calls |-> 0]
Nothing ==
  [req |-> 0, ep |-> "none", name |-> "none", stream |-> FALSE, up |-> NoUp,
   calls |-> 0, resp |-> NoResp]

\* The major version of the installed pydantic: main.py pins none.
PydanticMajors == {1, 2}

Init ==
  /\ slot = [r \in Req |-> Idle]
  /\ sent = Nothing
  /\ pydantic \in PydanticMajors

-----------------------------------------------------------------------------
(* GET / *)

read_root_result == JsonResp(200, [message |-> <<"welcome to the Ollama FastAPI server!">>])

read_root(r) ==
  /\ slot[r].pc = "idle"
  /\ sent' = [req |-> r, ep |-> "root", name |-> "none", stream |-> FALSE, up |-> NoUp,
              calls |-> slot[r].calls, resp |-> read_root_result]
  /\ UNCHANGED <<slot, pydantic>>

-----------------------------------------------------------------------------
(* POST /api/generate *)

\* The bodies the daemon can send with a 200 to POST /api/generate: any subset of
\* the three fields OllamaResponse needs, and all three with a field it does not know.
GenerateKeys == {"model", "response", "done"}

GenerateValue(k, d) ==
  CASE k = "model"      -> <<"model-from-ollama">>
    [] k = "response"   -> <<"hello">>
    [] k = "done"       -> d
    [] k = "created_at" -> <<"2023-01-01T00:00:00Z">>

GenerateBodies ==
  {[k \in K |-> GenerateValue(k, TRUE)] : K \in SUBSET GenerateKeys}
    \cup {[k \in GenerateKeys |-> GenerateValue(k, FALSE)],
          [k \in GenerateKeys \cup {"created_at"} |-> GenerateValue(k, TRUE)]}

UpGenerate ==
  {UpResponse(200, <<"json">>, TRUE, b) : b \in GenerateBodies}
    \cup UpErrorResponses \cup UpRaises

\* The Python value None.
None == EmptyJson

\* response_model=OllamaResponse: the returned value must carry the model's fields.
OllamaResponseFields == {"model", "response", "done"}

\* The body of generate_text: what it returns or raises.  It never reads the
\* upstream; StreamingResponse() lacks its required content argument.
generate_text_body(request) ==
  IF request.stream
    THEN [raised |-> TRUE, exc |-> "TypeError", value |-> None]
    ELSE [raised |-> FALSE, exc |-> "none", value |-> None]

generate_text_result(request) ==
  LET b == generate_text_body(request) IN
  IF b.raised THEN Unhandled(b.exc)
  ELSE IF OllamaResponseFields \subseteq DOMAIN b.value
    THEN JsonResp(200, [k \in OllamaResponseFields |-> b.value[k]])
  ELSE Unhandled("ResponseValidationError")

generate_text(r, U) ==
  /\ slot[r].pc = "idle"
  /\ \E name \in Names, stream \in BOOLEAN, u \in UpGenerate \cap U :
       sent' = [req |-> r, ep |-> "generate", name |-> name, stream |-> stream,
                up |-> u, calls |-> slot[r].calls,
                resp |-> generate_text_result([model |-> name, stream |-> stream])]
  /\ UNCHANGED <<slot, pydantic>>

-----------------------------------------------------------------------------
(* GET /api/tags of the daemon, probed by /health, /api/connectivity, /api/models *)

\* A JSON scalar as parsed by response.json(): a str or an int, with its text.
JsonStr(text) == [type |-> "str", text |-> text]
JsonInt(n) == [type |-> "int", text |-> Digits(n)]

\* One entry of the daemon's models array: any subset of the three keys read.
TagKeys == {"name", "size", "modified_at"}

TagValue(k, n) ==
  CASE k = "name"        -> JsonStr(n)
    [] k = "size"        -> JsonStr(<<"4.7GB">>)
    [] k = "modified_at" -> JsonStr(<<"2024-05-01">>)

TagEntries == {[k \in K |-> TagValue(k, <<"llama3">>)] : K \in SUBSET TagKeys}

\* An entry as the daemon really sends it: the size is a number of bytes.
IntSizeEntry == [name |-> JsonStr(<<"qwen">>), size |-> JsonInt(4661)]

\* The entries longer arrays are built from; they differ, so their order shows.
OrderEntries ==
  {[k \in TagKeys |-> TagValue(k, <<"llama3">>)], [name |-> JsonStr(<<"mistral">>)],
   IntSizeEntry}

RECURSIVE SeqsOf(_, _)
SeqsOf(S, n) ==
  IF n = 0 THEN {<<>>} ELSE {Append(q, e) : q \in SeqsOf(S, n - 1), e \in S}

TagsBodies ==
  {EmptyJson, [models |-> <<>>]}
    \cup {[models |-> <<e>>] : e \in TagEntries \cup {IntSizeEntry}}
    \cup {[models |-> q] : q \in UNION {SeqsOf(OrderEntries, n) : n \in 2..MaxModels}}

\* 200 with a JSON body, 200 with a body that is no JSON, 204, 4xx/5xx, or a raise.
UpTags ==
  {UpResponse(200, <<"json">>, TRUE, b) : b \in TagsBodies}
    \cup {UpResponse(200, <<"not", "json">>, FALSE, EmptyJson),
          UpResponse(204, <<>>, FALSE, EmptyJson)}
    \cup UpErrorResponses \cup UpRaises

-----------------------------------------------------------------------------
(* GET /health *)

\* time.strftime(...) of the local time; its value plays no part in any decision.
timestamp == <<"%Y-%m-%d %H:%M:%S">>

\* health_check_connected with the test "is 200" loosened to "is no error status".
health_check_connected_any_success(u) ==
  IF u.kind = "raise" THEN FALSE
  ELSE IF u.status < 400 THEN TRUE
  ELSE FALSE

\* The try block and its bare except: ollama_connected after them.
health_check_connected(u) ==
  IF u.kind = "raise" THEN FALSE
  ELSE IF u.status = 200 THEN TRUE
  ELSE FALSE

health_check_result(u) ==
  JsonResp(200, [status |-> <<"healthy">>, timestamp |-> timestamp,
                 ollama_connected |-> health_check_connected(u),
                 ollama_url |-> OLLAMA_BASE_URL])

health_check_call(r) ==
  /\ slot[r].pc = "idle"
  /\ slot' = [slot EXCEPT ![r] = [pc |-> "await", ep |-> "health", name |-> "none",
                                  start_time |-> 0, calls |-> slot[r].calls + 1]]
  /\ UNCHANGED <<sent, pydantic>>

health_check_return(r, U) ==
  /\ slot[r].pc = "await" /\ slot[r].ep = "health"
  /\ \E u \in UpTags \cap U :
       sent' = [req |-> r, ep |-> "health", name |-> "none", stream |-> FALSE,
                up |-> u, calls |-> slot[r].calls, resp |-> health_check_result(u)]
  /\ slot' = [slot EXCEPT ![r] = Idle]
  /\ UNCHANGED pydantic

-----------------------------------------------------------------------------
(* GET /api/connectivity *)

\* n/d rounded to the nearest integer, ties to even, as Python's round does.
RoundHalfEven(n, d) ==
  LET q == n \div d
      rem == n % d
  IN  IF 2 * rem < d THEN q
      ELSE IF 2 * rem > d THEN q + 1
      ELSE IF q % 2 = 0 THEN q ELSE q + 1

\* round((end_time - start_time) * 1000, 2), in hundredths of a millisecond;
\* the clock readings are in ticks of 5 microseconds.
response_time_ms(start_time, end_time) == RoundHalfEven((end_time - start_time) * 5, 10)

\* test_ollama_connectivity_result with the timing left out of the last except clause.
test_ollama_connectivity_result_untimed(u, start_time, end_time) ==
  LET ms == response_time_ms(start_time, end_time) IN
  IF u.kind = "response" THEN
    IF u.status = 200
      THEN JsonResp(200, [connected |-> TRUE, ollama_url |-> OLLAMA_BASE_URL,
                          response_time_ms |-> ms])
      ELSE JsonResp(200, [connected |-> FALSE, ollama_url |-> OLLAMA_BASE_URL,
                          response_time_ms |-> ms,
                          error_message |-> <<"HTTP ">> \o Digits(u.status) \o <<": ">> \o u.text])
  ELSE IF IsInstance(u.exc, "RequestError")
    THEN JsonResp(200, [connected |-> FALSE, ollama_url |-> OLLAMA_BASE_URL,
                        response_time_ms |-> ms,
                        error_message |-> <<"connection error: ">> \o u.msg])
  ELSE JsonResp(200, [connected |-> FALSE, ollama_url |-> OLLAMA_BASE_URL,
                      error_message |-> <<"unknown error: ">> \o u.msg])

\* OllamaConnectivityResponse; a field left at its default None is left out.
test_ollama_connectivity_result(u, start_time, end_time) ==
  LET ms == response_time_ms(start_time, end_time) IN
  IF u.kind = "response" THEN
    IF u.status = 200
      THEN JsonResp(200, [connected |-> TRUE, ollama_url |-> OLLAMA_BASE_URL,
                          response_time_ms |-> ms])
      ELSE JsonResp(200, [connected |-> FALSE, ollama_url |-> OLLAMA_BASE_URL,
                          response_time_ms |-> ms,
                          error_message |-> <<"HTTP ">> \o Digits(u.status) \o <<": ">> \o u.text])
  ELSE IF IsInstance(u.exc, "RequestError")
    THEN JsonResp(200, [connected |-> FALSE, ollama_url |-> OLLAMA_BASE_URL,
                        response_time_ms |-> ms,
                        error_message |-> <<"connection error: ">> \o u.msg])
  ELSE IF IsInstance(u.exc, "Exception")
    THEN JsonResp(200, [connected |-> FALSE, ollama_url |-> OLLAMA_BASE_URL,
                        response_time_ms |-> ms,
                        error_message |-> <<"unknown error: ">> \o u.msg])
  ELSE Unhandled(u.exc)

\* time.time() is read at the start of the handler; the clock does not run backwards
\* between the two readings of one request.
test_ollama_connectivity_call(r) ==
  /\ slot[r].pc = "idle"
  /\ \E start_time \in 0..MaxClock :
       slot' = [slot EXCEPT ![r] = [pc |-> "await", ep |-> "connectivity", name |-> "none",
                                    start_time |-> start_time, calls |-> slot[r].calls + 1]]
  /\ UNCHANGED <<sent, pydantic>>

test_ollama_connectivity_return(r, U) ==
  /\ slot[r].pc = "await" /\ slot[r].ep = "connectivity"
  /\ \E u \in UpTags \cap U, end_time \in slot[r].start_time..MaxClock :
       sent' = [req |-> r, ep |-> "connectivity", name |-> "none", stream |-> FALSE,
                up |-> u, calls |-> slot[r].calls,
                resp |-> test_ollama_connectivity_result(u, slot[r].start_time, end_time)]
  /\ slot' = [slot EXCEPT ![r] = Idle]
  /\ UNCHANGED pydantic

-----------------------------------------------------------------------------
(* What a try block can end in *)

Raised(exc, msg) == [raised |-> TRUE, exc |-> exc, msg |-> msg, value |-> None]
Returned(value) == [raised |-> FALSE, exc |-> "none", msg |-> <<>>, value |-> value]

\* response.raise_for_status() raises HTTPStatusError for a 4xx or 5xx status.
raise_for_status(u) == u.status >= 400

\* await client.<method>(...); response.raise_for_status(); response.json()
call_and_parse(u) ==
  IF u.kind = "raise" THEN Raised(u.exc, u.msg)
  ELSE IF raise_for_status(u) THEN Raised("HTTPStatusError", <<"HTTP", "status", "error">>)
  ELSE IF ~u.jsonok THEN Raised("JSONDecodeError", <<"Expecting", "value">>)
  ELSE Returned(u.json)

-----------------------------------------------------------------------------
(* GET /api/models *)

\* The keyword arguments of ModelInfo(...): model_data.get(key, default), by field.
ModelInfoArgs(model_data) ==
  [k \in {"name"} \cup (IF "size" \in DOMAIN model_data THEN {"size"} ELSE {})
                  \cup (IF "modified_at" \in DOMAIN model_data THEN {"modified"} ELSE {})
     |-> CASE k = "name" -> IF "name" \in DOMAIN model_data
                              THEN model_data["name"] ELSE JsonStr(<<"unknown">>)
           [] k = "size" -> model_data["size"]
           [] k = "modified" -> model_data["modified_at"]]

\* A str field given an int: pydantic 1 turns it into str(int), pydantic 2 rejects it.
ModelInfoRejects(model_data) ==
  /\ pydantic = 2
  /\ \E k \in DOMAIN ModelInfoArgs(model_data) : ModelInfoArgs(model_data)[k].type # "str"

\* ModelInfo(name=..., size=..., modified=...); a field that is None is left out.
ModelInfo(model_data) ==
  [k \in DOMAIN ModelInfoArgs(model_data) |-> JsonStr(ModelInfoArgs(model_data)[k].text)]

get_available_models_body(u) ==
  LET parsed == call_and_parse(u) IN
  IF parsed.raised THEN parsed
  ELSE LET ollama_data == parsed.value
           entries == IF "models" \in DOMAIN ollama_data THEN ollama_data["models"] ELSE <<>>
           models == [i \in 1..Len(entries) |-> ModelInfo(entries[i])]
       IN  IF \E i \in 1..Len(entries) : ModelInfoRejects(entries[i])
             THEN Raised("ValidationError", <<"Input should be a valid string">>)
             ELSE Returned([models |-> models, count |-> Len(models)])

get_available_models_result(u) ==
  LET b == get_available_models_body(u) IN
  IF ~b.raised THEN JsonResp(200, b.value)
  ELSE IF IsInstance(b.exc, "HTTPStatusError")
    THEN HTTPException(u.status, <<"failed to get the model list: ">> \o Digits(u.status)
                                   \o <<" - ">> \o u.text)
  ELSE IF IsInstance(b.exc, "RequestError")
    THEN HTTPException(503, cannot_connect \o b.msg)
  ELSE IF IsInstance(b.exc, "Exception")
    THEN HTTPException(500, <<"internal error while getting the model list: ">> \o b.msg)
  ELSE Unhandled(b.exc)

get_available_models_call(r) ==
  /\ slot[r].pc = "idle"
  /\ slot' = [slot EXCEPT ![r] = [pc |-> "await", ep |-> "models", name |-> "none",
                                  start_time |-> 0, calls |-> slot[r].calls + 1]]
  /\ UNCHANGED <<sent, pydantic>>

get_available_models_return(r, U) ==
  /\ slot[r].pc = "await" /\ slot[r].ep = "models"
  /\ \E u \in UpTags \cap U :
       sent' = [req |-> r, ep |-> "models", name |-> "none", stream |-> FALSE,
                up |-> u, calls |-> slot[r].calls, resp |-> get_available_models_result(u)]
  /\ slot' = [slot EXCEPT ![r] = Idle]
  /\ UNCHANGED pydantic

-----------------------------------------------------------------------------
(* GET /api/version *)

UpVersion ==
  {UpResponse(200, <<"json">>, TRUE, [version |-> <<"0.1.32">>]),
   UpResponse(200, <<"not", "json">>, FALSE, EmptyJson)}
    \cup UpErrorResponses \cup UpRaises

\* get_ollama_version_result without the except clause for httpx.RequestError.
get_ollama_version_result_no_request_error(u) ==
  LET b == call_and_parse(u) IN
  IF ~b.raised THEN JsonResp(200, b.value)
  ELSE IF IsInstance(b.exc, "HTTPStatusError")
    THEN HTTPException(u.status, <<"failed to get the version: ">> \o Digits(u.status)
                                   \o <<" - ">> \o u.text)
  ELSE HTTPException(500, <<"internal error while getting the version: ">> \o b.msg)

get_ollama_version_result(u) ==
  LET b == call_and_parse(u) IN
  IF ~b.raised THEN JsonResp(200, b.value)
  ELSE IF IsInstance(b.exc, "HTTPStatusError")
    THEN HTTPException(u.status, <<"failed to get the version: ">> \o Digits(u.status)
                                   \o <<" - ">> \o u.text)
  ELSE IF IsInstance(b.exc, "RequestError")
    THEN HTTPException(503, cannot_connect \o b.msg)
  ELSE IF IsInstance(b.exc, "Exception")
    THEN HTTPException(500, <<"internal error while getting the version: ">> \o b.msg)
  ELSE Unhandled(b.exc)

get_ollama_version_call(r) ==
  /\ slot[r].pc = "idle"
  /\ slot' = [slot EXCEPT ![r] = [pc |-> "await", ep |-> "version", name |-> "none",
                                  start_time |-> 0, calls |-> slot[r].calls + 1]]
  /\ UNCHANGED <<sent, pydantic>>

get_ollama_version_return(r, U) ==
  /\ slot[r].pc = "await" /\ slot[r].ep = "version"
  /\ \E u \in UpVersion \cap U :
       sent' = [req |-> r, ep |-> "version", name |-> "none", stream |-> FALSE,
                up |-> u, calls |-> slot[r].calls, resp |-> get_ollama_version_result(u)]
  /\ slot' = [slot EXCEPT ![r] = Idle]
  /\ UNCHANGED pydantic

-----------------------------------------------------------------------------
(* DELETE /api/model/{model_name} *)

\* The daemon answers a delete with an empty 200 or 204, an error status, or not at all.
UpDelete ==
  {UpResponse(200, <<>>, FALSE, EmptyJson), UpResponse(204, <<>>, FALSE, EmptyJson)}
    \cup UpErrorResponses \cup UpRaises

delete_model_body(u) ==
  IF u.kind = "raise" THEN Raised(u.exc, u.msg)
  ELSE IF raise_for_status(u) THEN Raised("HTTPStatusError", <<"HTTP", "status", "error">>)
  ELSE Returned(u.status)

\* delete_model_result without the special case for an upstream 404.
delete_model_result_no_404(model_name, u) ==
  LET b == delete_model_body(u) IN
  IF ~b.raised
    THEN JsonResp(200, [message |-> <<"model '", model_name, "' deleted">>])
  ELSE IF IsInstance(b.exc, "HTTPStatusError")
    THEN HTTPException(u.status, <<"failed to delete the model: ">> \o Digits(u.status)
                                   \o <<" - ">> \o u.text)
  ELSE IF IsInstance(b.exc, "RequestError")
    THEN HTTPException(503, cannot_connect \o b.msg)
  ELSE HTTPException(500, <<"internal error while deleting the model: ">> \o b.msg)

delete_model_result(model_name, u) ==
  LET b == delete_model_body(u) IN
  IF ~b.raised
    THEN JsonResp(200, [message |-> <<"model '", model_name, "' deleted">>])
  ELSE IF IsInstance(b.exc, "HTTPStatusError")
    THEN IF u.status = 404
           THEN HTTPException(404, <<"model '", model_name, "' not found">>)
           ELSE HTTPException(u.status, <<"failed to delete the model: ">> \o Digits(u.status)
                                          \o <<" - ">> \o u.text)
  ELSE IF IsInstance(b.exc, "RequestError")
    THEN HTTPException(503, cannot_connect \o b.msg)
  ELSE IF IsInstance(b.exc, "Exception")
    THEN HTTPException(500, <<"internal error while deleting the model: ">> \o b.msg)
  ELSE Unhandled(b.exc)

delete_model_call(r) ==
  /\ slot[r].pc = "idle"
  /\ \E model_name \in Names :
       slot' = [slot EXCEPT ![r] = [pc |-> "await", ep |-> "delete", name |-> model_name,
                                    start_time |-> 0, calls |-> slot[r].calls + 1]]
  /\ UNCHANGED <<sent, pydantic>>

\* delete_model_return with model_name kept in a module-level global that every
\* request in flight overwrites: the name is the one of any DELETE in flight.
delete_model_return_shared_name(r, U) ==
  /\ slot[r].pc = "await" /\ slot[r].ep = "delete"
  /\ \E u \in UpDelete \cap U, q \in DOMAIN slot :
       /\ slot[q].pc = "await" /\ slot[q].ep = "delete"
       /\ sent' = [req |-> r, ep |-> "delete", name |-> slot[r].name, stream |-> FALSE,
                   up |-> u, calls |-> slot[r].calls,
                   resp |-> delete_model_result(slot[q].name, u)]
  /\ slot' = [slot EXCEPT ![r] = Idle]
  /\ UNCHANGED pydantic

delete_model_return(r, U) ==
  /\ slot[r].pc = "await" /\ slot[r].ep = "delete"
  /\ \E u \in UpDelete \cap U :
       sent' = [req |-> r, ep |-> "delete", name |-> slot[r].name, stream |-> FALSE,
                up |-> u, calls |-> slot[r].calls, resp |-> delete_model_result(slot[r].name, u)]
  /\ slot' = [slot EXCEPT ![r] = Idle]
  /\ UNCHANGED pydantic

-----------------------------------------------------------------------------

\* Every outcome the upstream has in this model.
UpAll == UpGenerate \cup UpTags \cup UpVersion \cup UpDelete

\* What the gateway can do for the request of slot r, the upstream's outcomes being
\* among U.
Handlers(r, U) ==
  \/ read_root(r)
  \/ generate_text(r, U)
  \/ health_check_call(r)
  \/ health_check_return(r, U)
  \/ test_ollama_connectivity_call(r)
  \/ test_ollama_connectivity_return(r, U)
  \/ get_available_models_call(r)
  \/ get_available_models_return(r, U)
  \/ get_ollama_version_call(r)
  \/ get_ollama_version_return(r, U)
  \/ delete_model_call(r)
  \/ delete_model_return(r, U)

Next == \E r \in Req : Handlers(r, UpAll)

Spec == Init /\ [][Next]_vars

-----------------------------------------------------------------------------
(* Several requests in flight.  The event loop runs the same handlers for      *)
(* NumInFlight requests at once, interleaved at their awaits; the upstream's    *)
(* outcomes are narrowed to one of each kind, so that the interleavings of more *)
(* requests can be explored.                                                    *)

InFlight == 1..NumInFlight

\* One outcome of each kind: a success, a 404, a refused connection.
InScope(u) ==
  IF u.kind = "raise" THEN u.exc = "ConnectError"
  ELSE /\ u.status \in {200, 404}
       /\ u.status = 404 => u.text = <<"model", "not", "found">>
       /\ u.status = 200 =>
            IF u.jsonok
              THEN u.json \in {[k \in GenerateKeys |-> GenerateValue(k, TRUE)],
                               [models |-> <<IntSizeEntry>>],
                               [version |-> <<"0.1.32">>]}
              ELSE u.text = <<>>

InitInFlight ==
  /\ slot = [r \in InFlight |-> Idle]
  /\ sent = Nothing
  /\ pydantic \in PydanticMajors

UpInScope == {u \in UpAll : InScope(u)}

NextInFlight == \E r \in InFlight : Handlers(r, UpInScope)

SpecInFlight == InitInFlight /\ [][NextInFlight]_vars

-----------------------------------------------------------------------------
(* Properties.  sent is the response most recently delivered, together with the *)
(* request it answers and the outcome the upstream had for that request; every  *)
(* response passes through sent, so an invariant over sent speaks of them all.  *)

\* The response carries a JSON detail message in which sub occurs.
HasDetail(resp, sub) ==
  /\ resp.kind = "json"
  /\ "detail" \in DOMAIN resp.body
  /\ Contains(resp.body["detail"], sub)

\* A non-streaming POST /api/generate has been answered.
GenerateAnswered == sent.ep = "generate" /\ ~sent.stream

\* The upstream's outcome for the answered request, by case.
UpStatusIs(s) == sent.up.kind = "response" /\ sent.up.status = s
UpIsError == sent.up.kind = "response" /\ sent.up.status >= 400
UpIsTransportError == sent.up.kind = "raise" /\ IsInstance(sent.up.exc, "RequestError")
UpIsOtherException ==
  /\ sent.up.kind = "raise"
  /\ ~IsInstance(sent.up.exc, "RequestError")
  /\ ~IsInstance(sent.up.exc, "HTTPStatusError")

\* C1: when the upstream answers a non-streaming POST /api/generate with 200 and a
\* body holding model, response and done, the gateway answers 200 and its body
\* holds exactly the upstream's values of the three fields.
C1_GeneratePassThrough ==
  (GenerateAnswered /\ UpStatusIs(200) /\ OllamaResponseFields \subseteq DOMAIN sent.up.json)
    => /\ sent.resp.status = 200
       /\ sent.resp.kind = "json"
       /\ DOMAIN sent.resp.body = OllamaResponseFields
       /\ \A k \in OllamaResponseFields : sent.resp.body[k] = sent.up.json[k]

\* C2: when the upstream answers POST /api/generate with 404, the gateway answers
\* 404 and the detail contains the model name of the request.
C2_GenerateModelNotFound ==
  (GenerateAnswered /\ UpStatusIs(404))
    => /\ sent.resp.status = 404
       /\ HasDetail(sent.resp, <<sent.name>>)

\* C3: when the upstream answers POST /api/generate with an error status other
\* than 404, the gateway answers with that status and the detail contains the
\* upstream's body text.
C3_GenerateStatusPassThrough ==
  (GenerateAnswered /\ UpIsError /\ ~UpStatusIs(404))
    => /\ sent.resp.status = sent.up.status
       /\ HasDetail(sent.resp, sent.up.text)

\* C4: when the upstream call of POST /api/generate fails at transport level, the
\* gateway answers 503 and the detail holds the connection-failure literal and
\* the text of the transport error.
C4_GenerateUnreachable ==
  (GenerateAnswered /\ UpIsTransportError)
    => /\ sent.resp.status = 503
       /\ HasDetail(sent.resp, cannot_connect)
       /\ HasDetail(sent.resp, sent.up.msg)

\* C5: when the upstream answers POST /api/generate with 200 and a body lacking
\* model, response or done, the gateway answers 500 (never 200) with a detail
\* saying that the format of the upstream's response is incorrect.
C5_GenerateMalformed ==
  (GenerateAnswered /\ UpStatusIs(200) /\ ~(OllamaResponseFields \subseteq DOMAIN sent.up.json))
    => /\ sent.resp.status = 500
       /\ HasDetail(sent.resp, <<"the response format received from Ollama is incorrect">>)

\* C6: when the upstream call of POST /api/generate raises an exception that is
\* neither an HTTP-status error nor a transport error, the gateway answers 500
\* and the detail embeds the text of the exception.
C6_GenerateInternalError ==
  (GenerateAnswered /\ UpIsOtherException)
    => /\ sent.resp.status = 500
       /\ HasDetail(sent.resp, sent.up.msg)

\* C7: GET /health answers 200 with status "healthy" whatever the upstream does,
\* and ollama_connected is true exactly when the probe returned HTTP 200.
C7_HealthNeverFails ==
  sent.ep = "health"
    => /\ sent.resp.status = 200
       /\ sent.resp.kind = "json"
       /\ sent.resp.body["status"] = <<"healthy">>
       /\ sent.resp.body["ollama_connected"] <=> UpStatusIs(200)

\* /health has been answered although the probe raised.
C7_Witness ==
  /\ sent.ep = "health"
  /\ sent.up.kind = "raise"
  /\ sent.resp.status = 200
  /\ ~sent.resp.body["ollama_connected"]

C10_ThreeTierMapping ==
  sent.ep \in {"models", "version"}
    => /\ UpIsError
            => /\ sent.resp.status = sent.up.status
               /\ HasDetail(sent.resp, Digits(sent.up.status) \o <<" - ">> \o sent.up.text)
               /\ ~HasDetail(sent.resp, cannot_connect)
       /\ UpIsTransportError
            => /\ sent.resp.status = 503
               /\ HasDetail(sent.resp, cannot_connect \o sent.up.msg)
       /\ UpIsOtherException
            => /\ sent.resp.status = 500
               /\ HasDetail(sent.resp, sent.up.msg)
       /\ (sent.up.kind = "response" /\ ~UpIsError /\ ~sent.up.jsonok)
            => /\ sent.resp.status = 500
               /\ HasDetail(sent.resp, <<"Expecting", "value">>)

\* A timeout of the upstream call of /api/version has been answered 503.
C10_Witness ==
  /\ sent.ep = "version"
  /\ sent.up.kind = "raise"
  /\ IsInstance(sent.up.exc, "TimeoutException")
  /\ sent.resp.status = 503
  /\ HasDetail(sent.resp, cannot_connect)

\* The models array of the upstream's body; none when the key is absent.
UpModels == IF "models" \in DOMAIN sent.up.json THEN sent.up.json["models"] ELSE <<>>

\* m is the ModelInfo the claim describes for the upstream entry e; a value counts
\* as passed through when its text is unchanged.
IsModelInfoOf(m, e) ==
  /\ m["name"].text = (IF "name" \in DOMAIN e THEN e["name"].text ELSE <<"unknown">>)
  /\ ("size" \in DOMAIN m) <=> ("size" \in DOMAIN e)
  /\ "size" \in DOMAIN e => m["size"].text = e["size"].text
  /\ ("modified" \in DOMAIN m) <=> ("modified_at" \in DOMAIN e)
  /\ "modified_at" \in DOMAIN e => m["modified"].text = e["modified_at"].text

\* C11: when the upstream answers GET /api/tags with 200 and a JSON body, GET
\* /api/models answers 200 with one ModelInfo per entry of the upstream's models
\* array, in its order (none when the key is absent): name or "unknown", size and
\* modified_at passed through or absent, and count the length of the list.
C11_ModelsMapping ==
  (sent.ep = "models" /\ UpStatusIs(200) /\ sent.up.jsonok)
    => /\ sent.resp.status = 200
       /\ sent.resp.kind = "json"
       /\ Len(sent.resp.body["models"]) = Len(UpModels)
       /\ \A i \in 1..Len(UpModels) : IsModelInfoOf(sent.resp.body["models"][i], UpModels[i])
       /\ sent.resp.body["count"] = Len(sent.resp.body["models"])

\* C12: a POST /api/generate with stream=true is answered either with the
\* upstream's output forwarded as a stream of chunks, or with an error whose detail
\* says that streaming is not supported.
C12_StreamForwardedOrRejected ==
  (sent.ep = "generate" /\ sent.stream)
    => \/ /\ sent.resp.kind = "stream"
          /\ sent.resp.status = 200
          /\ sent.resp.body["chunks"] # <<>>
       \/ /\ sent.resp.status >= 400
          /\ HasDetail(sent.resp, <<"streaming is not supported">>)

\* The statuses of the error taxonomy, for the response most recently delivered.
TaxonomyStatuses ==
  {404, 503, 500} \cup (IF sent.up.kind = "response" THEN {sent.up.status} ELSE {})

\* C13: on every endpoint, a response that is not a success is a JSON body
\* {detail: message} with a status of the taxonomy, and no exception leaves a handler.
C13_ErrorsAreStructured ==
  (sent.ep # "none" /\ sent.resp.status # 200)
    => /\ sent.resp.kind = "json"
       /\ DOMAIN sent.resp.body = {"detail"}
       /\ sent.resp.status \in TaxonomyStatuses

\* The response without the duration the request measured for its own call.
Untimed(resp) ==
  [resp EXCEPT !.body = [k \in DOMAIN resp.body \ {"response_time_ms"} |-> resp.body[k]]]

====
